---- MODULE Spec2Model ----
(***************************************************************************)
(* Model of the notes web application: the backend (express + mongoose +   *)
(* express-session/connect-mongo) and the notes page of the React client.  *)
(* Every request handler is an async      *)
(* function: it runs atomically up to each `await`, so a handler is one     *)
(* action per await point.  Requests of several browsers are in flight at   *)
(* the same time and interleave at those points.                            *)
(*                                                                         *)
(* The specifications share the actions: Spec drives the users API with     *)
(* every request body, SpecSessions the sessions of two browsers (login,    *)
(* logout, expiry, guarded reads), SpecNotes the notes API of two browsers, *)
(* SpecNoteLife the notes of a browser that is signed up, SpecTimestamps    *)
(* one note under a clock, SpecFaults the users API with failing database   *)
(* and session store, SpecRolling the session lifetime under a clock,       *)
(* SpecShared the note pool seen by two accounts, SpecUpdates concurrent    *)
(* updates of one note, SpecLive the completion of requests under weak      *)
(* fairness, SpecClient the notes page with its dialogs and                 *)
(* SpecClientFaults the same page over a failing database.                  *)
(***************************************************************************)
EXTENDS Integers, Sequences, FiniteSets, TLC

\* ------------------------------------------------------------------ bounds
MaxRequests == 3      \* requests received in one behaviour
MaxInFlight == 2      \* requests being handled at the same time
MaxTime     == 3      \* the clock stops here
MaxDialogs  == 2      \* note dialogs opened in one behaviour

\* cookie.maxAge (one hour), in ticks of the clock: a tick is half an hour
maxAge == 2

Slots    == 1..MaxInFlight
Clients  == {"c1", "c2"}     \* the browsers
Browsers == {"c1"}           \* the browser that exercises the users API

\* ------------------------------------------------------------ input values
Undefined == "<undefined>"                 \* a field absent from the JSON body
Usernames == {"a", "b"}
Emails    == {"a@x.com", "b@x.com"}
Passwords == {"p", "q"}
Titles    == {"T"}          \* titles of new notes
NewTitles == {"U"}          \* titles that updates give to notes
Texts     == {"X"}

UsernameInputs == Usernames \cup {Undefined, ""}
EmailInputs    == Emails \cup {Undefined}
PasswordInputs == Passwords \cup {Undefined}

\* request bodies of the users API
SignUpBodies ==
    [username : UsernameInputs, email : EmailInputs, password : {"p", Undefined}]
LoginBodies ==
    [username : {"a", Undefined, ""}, password : PasswordInputs]

\* the account of each browser
AccountOf ==
    [c \in Clients |->
        IF c = "c1" THEN [username |-> "a", email |-> "a@x.com", password |-> "p"]
                    ELSE [username |-> "b", email |-> "b@x.com", password |-> "p"]]

\* request bodies of the notes API
TitleInputs == Titles \cup {Undefined, ""}
NewTitleInputs == NewTitles \cup {Undefined, ""}
TextInputs  == Texts \cup {Undefined}

\* a check that tests only for an absent field
FalsyUndefinedOnly(x) == x = Undefined

\* a check that tests only for an empty string
FalsyEmptyOnly(x) == x = ""

\* JavaScript `!x` on a value of type string | undefined
Falsy(x) == x = Undefined \/ x = ""

\* --------------------------------------------------------------- object ids
\* An ObjectId is a string of hex digits of one fixed length (24); the model
\* keeps the shape with two digits.  "z" stands for any non-hex character.
HexChar == <<"0", "1", "2", "3", "4", "5", "6", "7",
             "8", "9", "a", "b", "c", "d", "e", "f">>

ObjectId(n) == <<HexChar[(n \div 16) + 1], HexChar[(n % 16) + 1]>>

\* a check of the length alone
isValidObjectIdLengthOnly(id) == Len(id) = Len(ObjectId(0))

isValidObjectId(id) ==
    /\ Len(id) = Len(ObjectId(0))
    /\ \A i \in 1..Len(id) : \E k \in 1..Len(HexChar) : id[i] = HexChar[k]

MalformedIds == {<<"z", "z">>, <<"1">>}

\* ------------------------------------------------------------------ bcrypt
\* bcrypt.hash is one-way: the stored value is never the raw password.
bcryptHash(raw) == <<"$2b$10$", raw>>

bcryptCompare(raw, hashed) == hashed = bcryptHash(raw)

\* ------------------------------------------------------------- http errors
createHttpError(status, message) ==
    [isHttp |-> TRUE, status |-> status, message |-> message]

\* an error thrown by the database driver / mongoose (not an HttpError)
MongoError(message) ==
    [isHttp |-> FALSE, status |-> 0, message |-> message]

isHttpError(error) == error.isHttp

NoError == [isHttp |-> FALSE, status |-> 0, message |-> ""]

\* an error handler that passes the message of every error to the client
ErrorHandlerLeaky(error) ==
    [status |-> IF isHttpError(error) THEN error.status ELSE 500,
     type   |-> "error",
     body   |-> [error |-> error.message],
     thrown |-> error]

\* app.ts error handler middleware: status and JSON body of the response
\* (thrown records the error that was forwarded; it is not sent)
ErrorHandler(error) ==
    [status |-> IF isHttpError(error) THEN error.status ELSE 500,
     type   |-> "error",
     body   |-> [error |-> IF isHttpError(error) THEN error.message
                                                 ELSE "an unknown error occurred"],
     thrown |-> error]

Success(status, type, body) ==
    [status |-> status, type |-> type, body |-> body, thrown |-> NoError]

NoBody == [error |-> ""]

\* -------------------------------------------------------------- user schema
\* userSchema: email and password are `select: false`
UserSelectFalse == {"email", "password"}

\* a projection that ignores `select: false`
SelectAll(doc, plus) == doc

\* the document a query returns: the default projection plus `plus` fields
Select(doc, plus) ==
    [f \in (DOMAIN doc \ UserSelectFalse) \cup plus |-> doc[f]]

\* ------------------------------------------------------------------ client
\* network/notes_api.ts and the two modals.  A call of a client API function
\* ends with [threw, error]; error is the Error object that was thrown.
Null == "<null>"

NoThrow == [threw |-> FALSE, error |-> [name |-> "", message |-> ""]]

\* Response.ok of the fetch API
ResponseOk(resp) == resp.status \in 200..299

\* throw Error(errorBody.error)
fetchData(resp) ==
    IF ResponseOk(resp)
    THEN NoThrow
    ELSE [threw |-> TRUE, error |-> [name |-> "Error", message |-> resp.body.error]]

getLoggedInUser(resp) == fetchData(resp)
signup(resp)          == fetchData(resp)
login(resp)           == fetchData(resp)
logout(resp)          == fetchData(resp)
fetchNotes(resp)      == fetchData(resp)
createNote(resp)      == fetchData(resp)
updateNote(resp)      == fetchData(resp)

\* await fetch(...): fetch does not throw on a response of any status
removeNote(resp) == NoThrow

\* `error instanceof cls` for the classes of errors/http_errors.ts
instanceOf(error, cls) == error.name = cls

NoUi == [errorText |-> Null, alert |-> FALSE]

\* LoginModal.onSubmit: what the catch block does with the error
LoginModalOnSubmit(call) ==
    IF ~call.threw THEN NoUi
    ELSE IF instanceOf(call.error, "UnauthorizedError")
    THEN [errorText |-> call.error.message, alert |-> FALSE]
    ELSE [errorText |-> Null, alert |-> TRUE]

\* SignUpModal.onSubmit
SignUpModalOnSubmit(call) ==
    IF ~call.threw THEN NoUi
    ELSE IF instanceOf(call.error, "ConflictError")
    THEN [errorText |-> call.error.message, alert |-> FALSE]
    ELSE [errorText |-> Null, alert |-> TRUE]

\* the client API function of each endpoint (none calls GET /api/notes/:id)
ApiFunction ==
    [getAuthenticatedUser |-> "getLoggedInUser", signUp |-> "signup",
     login |-> "login", logout |-> "logout", getNotes |-> "fetchNotes",
     createNote |-> "createNote", updateNote |-> "updateNote",
     deleteNote |-> "removeNote"]

NoCall == [fn |-> "none", threw |-> FALSE, error |-> NoThrow.error, ui |-> NoUi]

\* the call of the client API function that receives the response of a
\* request of this kind, and what its modal shows
ClientCall(kind, resp) ==
    IF kind \notin DOMAIN ApiFunction THEN NoCall
    ELSE LET fn   == ApiFunction[kind]
             call == CASE fn = "getLoggedInUser" -> getLoggedInUser(resp)
                       [] fn = "signup"          -> signup(resp)
                       [] fn = "login"           -> login(resp)
                       [] fn = "logout"          -> logout(resp)
                       [] fn = "fetchNotes"      -> fetchNotes(resp)
                       [] fn = "createNote"      -> createNote(resp)
                       [] fn = "updateNote"      -> updateNote(resp)
                       [] fn = "removeNote"      -> removeNote(resp)
         IN [fn |-> fn, threw |-> call.threw, error |-> call.error,
             ui |-> CASE fn = "login"  -> LoginModalOnSubmit(call)
                      [] fn = "signup" -> SignUpModalOnSubmit(call)
                      [] OTHER         -> NoUi]

\* ------------------------------------------------------------------- state
VARIABLES
    users,      \* the User collection: set of [_id, username, email, password]
    notes,      \* the Note collection: set of [_id, title, text]
    store,      \* session store: function session id -> userId
    cookie,     \* the session cookie each browser holds (0: none)
    inflight,   \* the request each slot is handling, or Idle
    lastResp,   \* the response the last step sent (NoResp: it sent none)
    nreq,       \* number of requests received
    nextSid,    \* next fresh session id
    nextNoteId, \* next fresh note id
    destroyed,  \* session ids destroyed by a logout and not saved since
    loginFail,  \* what a client saw of each login that was refused after its
                \* body was accepted: [at, status, body]
    now,        \* the clock (Date.now()), in ticks
    expires,    \* session store: function session id -> time it expires
    lastCall,   \* how the client API call that got the last response ended
    deleted,    \* ids of the notes whose deletion was answered 204
    life,       \* of each session ever saved: seen, the latest arrival of an
                \* answered request that carried it (or its creation), and
                \* renewed, the latest time it was saved or touched
    creator,    \* of each note ever created: the userId of the session
                \* whose request created it
    nresp,      \* number of responses sent
    app,        \* the state of the notes page of the browser c1 (useState):
                \* mounted, notes, showAddNoteDialog, noteToEdit
    form,       \* the useForm state of the note dialog that is or was last
                \* mounted: inst, the number of the dialog, and isSubmitting
    expect,     \* the notes the page loaded with every answered create,
                \* update and delete of the page applied in turn
    savedBy     \* of each note created from a dialog: the number of the dialog

vars == <<users, notes, store, cookie, inflight, lastResp, nreq, nextSid,
          nextNoteId, destroyed, loginFail, now, expires, lastCall, deleted,
          life, creator, nresp, app, form, expect, savedBy>>

NullDoc == [_id |-> 0]

\* no notes page is open: the requests come from a bare HTTP client
NoApp == [mounted |-> FALSE, notes |-> <<>>, showAddNoteDialog |-> FALSE,
          noteToEdit |-> NullDoc]

NoForm == [inst |-> 0, isSubmitting |-> FALSE]

Idle == [kind |-> "idle"]

NoResp == [kind |-> "none", status |-> 0, type |-> "none", body |-> NoBody,
           c |-> "", at |-> "", sid |-> 0, uid |-> 0, dup |-> FALSE,
           lo |-> FALSE, missing |-> FALSE, thrown |-> NoError,
           noteId |-> <<>>, gone |-> FALSE, ck |-> 0, recent |-> FALSE,
           alive |-> FALSE]

GuardedKinds == {"getAuthenticatedUser", "getNotes", "getNote", "createNote",
                 "updateNote", "deleteNote"}
NotesKinds   == GuardedKinds \ {"getAuthenticatedUser"}
UserKinds    == {"getAuthenticatedUser", "signUp", "login"}

Init ==
    /\ users = {}
    /\ notes = {}
    /\ store = [s \in {} |-> 0]
    /\ cookie = [c \in Clients |-> 0]
    /\ inflight = [s \in Slots |-> Idle]
    /\ lastResp = NoResp
    /\ nreq = 0
    /\ nextSid = 1
    /\ nextNoteId = 1
    /\ destroyed = {}
    /\ loginFail = {}
    /\ now = 0
    /\ expires = [s \in {} |-> 0]
    /\ lastCall = NoCall
    /\ deleted = {}
    /\ life = [s \in {} |-> 0]
    /\ creator = [n \in {} |-> 0]
    /\ nresp = 0
    /\ app = NoApp
    /\ form = NoForm
    /\ expect = <<>>
    /\ savedBy = [n \in {} |-> 0]

\* the state after the browser c1 signed up with its account at time 0
InitSignedUp ==
    /\ users = {[_id |-> 1, username |-> AccountOf["c1"].username,
                 email |-> AccountOf["c1"].email,
                 password |-> bcryptHash(AccountOf["c1"].password)]}
    /\ notes = {}
    /\ store = [s \in {1} |-> 1]
    /\ cookie = [c \in Clients |-> IF c = "c1" THEN 1 ELSE 0]
    /\ inflight = [s \in Slots |-> Idle]
    /\ lastResp = NoResp
    /\ nreq = 0
    /\ nextSid = 2
    /\ nextNoteId = 1
    /\ destroyed = {}
    /\ loginFail = {}
    /\ now = 0
    /\ expires = [s \in {1} |-> maxAge]
    /\ lastCall = NoCall
    /\ deleted = {}
    /\ life = [s \in {1} |-> [seen |-> 0, renewed |-> 0]]
    /\ creator = [n \in {} |-> 0]
    /\ nresp = 0
    /\ app = NoApp
    /\ form = NoForm
    /\ expect = <<>>
    /\ savedBy = [n \in {} |-> 0]

\* a note as the first requests of the browser c1 stored it
StoredNote(k) ==
    [_id |-> ObjectId(k), title |-> "T", text |-> "X", createdAt |-> 0,
     updatedAt |-> 0]

\* the state after the browser c1 signed up, created two notes and opened
\* the notes page, which loaded them (loadNotes), all at time 0
InitClient ==
    /\ users = {[_id |-> 1, username |-> AccountOf["c1"].username,
                 email |-> AccountOf["c1"].email,
                 password |-> bcryptHash(AccountOf["c1"].password)]}
    /\ notes = {StoredNote(1), StoredNote(2)}
    /\ store = [s \in {1} |-> 1]
    /\ cookie = [c \in Clients |-> IF c = "c1" THEN 1 ELSE 0]
    /\ inflight = [s \in Slots |-> Idle]
    /\ lastResp = NoResp
    /\ nreq = 0
    /\ nextSid = 2
    /\ nextNoteId = 3
    /\ destroyed = {}
    /\ loginFail = {}
    /\ now = 0
    /\ expires = [s \in {1} |-> maxAge]
    /\ lastCall = NoCall
    /\ deleted = {}
    /\ life = [s \in {1} |-> [seen |-> 0, renewed |-> 0]]
    /\ creator = [n \in {ObjectId(1), ObjectId(2)} |-> 1]
    /\ nresp = 0
    /\ app = [mounted |-> TRUE, notes |-> <<StoredNote(1), StoredNote(2)>>,
              showAddNoteDialog |-> FALSE, noteToEdit |-> NullDoc]
    /\ form = NoForm
    /\ expect = <<StoredNote(1), StoredNote(2)>>
    /\ savedBy = [n \in {} |-> 0]

\* the state after the browsers c1 and c2 signed up, each with its account,
\* at time 0
InitTwoSignedUp ==
    /\ users = {[_id |-> 1, username |-> AccountOf["c1"].username,
                 email |-> AccountOf["c1"].email,
                 password |-> bcryptHash(AccountOf["c1"].password)],
                [_id |-> 2, username |-> AccountOf["c2"].username,
                 email |-> AccountOf["c2"].email,
                 password |-> bcryptHash(AccountOf["c2"].password)]}
    /\ notes = {}
    /\ store = [s \in {1, 2} |-> s]
    /\ cookie = [c \in Clients |-> IF c = "c1" THEN 1 ELSE 2]
    /\ inflight = [s \in Slots |-> Idle]
    /\ lastResp = NoResp
    /\ nreq = 0
    /\ nextSid = 3
    /\ nextNoteId = 1
    /\ destroyed = {}
    /\ loginFail = {}
    /\ now = 0
    /\ expires = [s \in {1, 2} |-> maxAge]
    /\ lastCall = NoCall
    /\ deleted = {}
    /\ life = [s \in {1, 2} |-> [seen |-> 0, renewed |-> 0]]
    /\ creator = [n \in {} |-> 0]
    /\ nresp = 0
    /\ app = NoApp
    /\ form = NoForm
    /\ expect = <<>>
    /\ savedBy = [n \in {} |-> 0]

\* ---------------------------------------------------- express-session layer
\* session(): the session named by the cookie is loaded from the store; a
\* cookie that names no stored session gets a new, uninitialised session
\* (sid 0 until it is saved), whose userId is undefined (0).  The store
\* returns a session only before the time it expires (and the browser sends
\* its cookie only until then).
StoreGet(sid) == sid \in DOMAIN store /\ expires[sid] > now

LoadSid(c) == IF StoreGet(cookie[c]) THEN cookie[c] ELSE 0

LoadUserId(c) == IF StoreGet(cookie[c]) THEN store[cookie[c]] ELSE 0

\* the request as the route handlers see it
NewRequest(kind, c) ==
    [kind |-> kind, c |-> c, sid |-> LoadSid(c), uid |-> LoadUserId(c),
     username |-> Undefined, email |-> Undefined, password |-> Undefined,
     noteId |-> <<>>, title |-> Undefined, text |-> Undefined,
     pc |-> "start",
     missing |-> FALSE,        \* a required field of the body is missing
     dup |-> FALSE,            \* signup names a stored username or email
     lo  |-> cookie[c] \in destroyed, \* cookie of a logged-out session
     gone |-> FALSE,           \* noteId names a note deleted before
     ck |-> cookie[c],         \* the cookie the browser holds
     arrived |-> now,
     recent |->                \* the session of the cookie was created, or a
                               \* request that carried it arrived, less than
                               \* maxAge ago
        \/ cookie[c] \in DOMAIN life /\ now - life[cookie[c]].seen < maxAge
        \/ \E t \in Slots : /\ inflight[t] # Idle
                            /\ inflight[t].sid = cookie[c]
                            /\ now - inflight[t].arrived < maxAge,
     alive |->                 \* the session of the cookie was saved or
                               \* touched less than maxAge ago
        cookie[c] \in DOMAIN life /\ now - life[cookie[c]].renewed < maxAge,
     closure |-> app.notes,    \* `notes` as the handler that sent the
                               \* request sees it (the state of its render)
     inst |->                  \* the dialog whose form sent the request
        IF app.mounted /\ kind \in {"createNote", "updateNote"}
        THEN form.inst ELSE 0,
     doc |-> NullDoc]          \* the document a find step returned

\* rolling: true -- a response of a request with a stored session re-sends
\* its cookie
RollCookie(r) ==
    IF r.sid # 0 THEN [cookie EXCEPT ![r.c] = r.sid] ELSE cookie

\* requiresAuth middleware
requiresAuth(r) == r.uid # 0

Unauthenticated == ErrorHandler(createHttpError(401, "User not authenticated"))

\* ------------------------------------------------------------ notes page
\* App.deleteNote after `await NotesApi.removeNote(noteId)`: setNotes of the
\* notes of the render that was clicked, without the note; alert when the
\* call threw
deleteNote(current, closure, noteId, call) ==
    IF call.threw THEN current
    ELSE SelectSeq(closure, LAMBDA existingNote : existingNote._id # noteId)

\* onNoteSaved of the add dialog: setNotes([...notes, newNote])
onNoteSavedNew(closure, newNote) == Append(closure, newNote)

\* onNoteSaved of the edit dialog: setNotes(notes.map(...))
onNoteSavedEdited(closure, editedNote) ==
    [i \in DOMAIN closure |->
        IF closure[i]._id = editedNote._id THEN editedNote ELSE closure[i]]

\* the state updates applied to the latest state instead of the state of a
\* render (setNotes(prev => ...)), for a response of any status
Applied(list, r, resp) ==
    CASE r.kind = "deleteNote" /\ ResponseOk(resp)
           -> SelectSeq(list, LAMBDA n : n._id # r.noteId)
      [] r.kind = "createNote" /\ ResponseOk(resp) -> Append(list, resp.body)
      [] r.kind = "updateNote" /\ ResponseOk(resp)
           -> [i \in DOMAIN list |->
                 IF list[i]._id = resp.body._id THEN resp.body ELSE list[i]]
      [] OTHER -> list

\* the page receives the response of a request it sent: the rest of
\* deleteNote, or of onCreate of the dialog (onNoteSaved, or alert), after
\* which the form is no longer submitting
AppOnResponse(r, resp, call) ==
    IF ~app.mounted
    THEN UNCHANGED <<app, form, expect, savedBy>>
    ELSE /\ app' =
              CASE r.kind = "deleteNote"
                     -> [app EXCEPT !.notes =
                            deleteNote(app.notes, r.closure, r.noteId, call)]
                [] r.kind = "createNote" /\ ~call.threw
                     -> [app EXCEPT !.notes = onNoteSavedNew(r.closure, resp.body),
                                    !.showAddNoteDialog = FALSE]
                [] r.kind = "updateNote" /\ ~call.threw
                     -> [app EXCEPT !.notes = onNoteSavedEdited(r.closure, resp.body),
                                    !.noteToEdit = NullDoc]
                [] OTHER -> app
         /\ form' = IF r.inst # 0 /\ r.inst = form.inst
                    THEN [form EXCEPT !.isSubmitting = FALSE] ELSE form
         /\ expect' = Applied(expect, r, resp)
         /\ savedBy' = IF r.kind = "createNote" /\ resp.status = 201 /\ r.inst # 0
                       THEN [n \in DOMAIN savedBy \cup {resp.body._id} |->
                               IF n = resp.body._id THEN r.inst ELSE savedBy[n]]
                       ELSE savedBy

\* the slot is freed and the response recorded; the response reaches the
\* browser in the same step
Reply(s, r, resp) ==
    /\ inflight' = [inflight EXCEPT ![s] = Idle]
    /\ lastResp' = [kind |-> r.kind, status |-> resp.status, type |-> resp.type,
                    body |-> resp.body,
                    c |-> r.c,              \* the browser answered
                    at |-> r.pc,            \* the await point that answered
                    sid |-> r.sid, uid |-> r.uid,    \* the session it carried
                    dup |-> r.dup, lo |-> r.lo, missing |-> r.missing,
                    thrown |-> resp.thrown,
                    noteId |-> r.noteId, gone |-> r.gone,
                    ck |-> r.ck, recent |-> r.recent, alive |-> r.alive]
    /\ LET saved == r.kind \in {"signUp", "login"} /\ resp.status = 201
           k == IF r.sid # 0 THEN r.sid ELSE IF saved THEN nextSid ELSE 0
           old == IF k \in DOMAIN life THEN life[k]
                                       ELSE [seen |-> now, renewed |-> now]
           touched == r.kind # "logout" /\ r.sid \in DOMAIN store IN
       life' = IF k = 0 THEN life
               ELSE [x \in DOMAIN life \cup {k} |->
                        IF x # k THEN life[x]
                        ELSE [seen |-> IF r.sid # 0 /\ r.arrived > old.seen
                                       THEN r.arrived ELSE old.seen,
                              renewed |-> IF saved \/ touched THEN now
                                                              ELSE old.renewed]]
    /\ lastCall' = ClientCall(r.kind, resp)
    /\ nresp' = nresp + 1
    /\ AppOnResponse(r, resp, ClientCall(r.kind, resp))
    /\ deleted' = IF r.kind = "deleteNote" /\ resp.status = 204
                  THEN deleted \cup {r.noteId} ELSE deleted
    /\ creator' = IF r.kind = "createNote" /\ resp.status = 201
                  THEN [n \in DOMAIN creator \cup {resp.body._id} |->
                           IF n = resp.body._id THEN r.uid ELSE creator[n]]
                  ELSE creator
    /\ UNCHANGED now
    /\ loginFail' = IF r.kind = "login" /\ r.pc # "start" /\ resp.type = "error"
                    THEN loginFail \cup {[at |-> r.pc, status |-> resp.status,
                                          body |-> resp.body]}
                    ELSE loginFail

\* the handler awaits: the request stays in its slot at the next await point
Await(s, r, pc) ==
    /\ inflight' = [inflight EXCEPT ![s] = [r EXCEPT !.pc = pc]]
    /\ lastResp' = NoResp
    /\ lastCall' = NoCall
    /\ form' = IF r.pc = "start" /\ r.inst # 0
               THEN [form EXCEPT !.isSubmitting = TRUE]   \* handleSubmit
               ELSE form
    /\ UNCHANGED <<loginFail, now, deleted, life, creator, nresp, app, expect,
                   savedBy>>

\* a request is received on a free slot
Arrive(s) ==
    /\ inflight[s] = Idle
    /\ \A t \in Slots : t < s => inflight[t] # Idle
    /\ nreq < MaxRequests
    /\ nreq' = nreq + 1

At(s, kind, pc) == inflight[s].kind = kind /\ inflight[s].pc = pc

\* the session is modified and saved (upsert), its cookie sent to the browser
SaveSession(r, userId) ==
    LET sid == IF r.sid # 0 THEN r.sid ELSE nextSid IN
    /\ store' = [x \in DOMAIN store \cup {sid} |->
                    IF x = sid THEN userId ELSE store[x]]
    /\ cookie' = [cookie EXCEPT ![r.c] = sid]
    /\ expires' = [x \in DOMAIN store \cup {sid} |->
                      IF x = sid THEN now + maxAge ELSE expires[x]]
    /\ nextSid' = IF r.sid # 0 THEN nextSid ELSE nextSid + 1
    /\ destroyed' = destroyed \ {sid}

\* a destroy that leaves the entry in the store
DestroySessionKeep(sid) == store

\* store.destroy(sid): the entry of the session is removed
DestroySession(sid) == [x \in DOMAIN store \ {sid} |-> store[x]]

\* a touch that leaves the lifetime of the session as it was (rolling: false)
TouchExpiresKeep(sid) == expires

\* store.touch(sid): the lifetime of the stored session starts anew; a
\* session that is no longer stored is not put back
TouchExpires(sid) ==
    IF sid \in DOMAIN store THEN [expires EXCEPT ![sid] = now + maxAge]
                            ELSE expires

\* the response of a request whose session was not modified: the cookie is
\* sent again and the stored session touched
Touch(r) ==
    /\ cookie' = RollCookie(r)
    /\ expires' = TouchExpires(r.sid)

\* a failed request that unbinds the session it carried
SessionUnbound(r) ==
    /\ Touch(r)
    /\ store' = [x \in DOMAIN store |-> IF x = r.sid THEN 0 ELSE store[x]]
    /\ UNCHANGED <<nextSid, destroyed>>

\* a request that does not write session.userId: the session is not saved
SessionUntouched(r) ==
    /\ Touch(r)
    /\ UNCHANGED <<store, nextSid, destroyed>>

\* ------------------------------------------------------------ User queries
ExistingUserName(username) == {u \in users : u.username = username}

\* a sign-up that does not look for the email
ExistingEmailNone(email) == {}

ExistingEmail(email) == {u \in users : u.email = email}

FindUserById(id) ==
    IF \E u \in users : u._id = id
    THEN CHOOSE u \in users : u._id = id
    ELSE NullDoc

\* a schema without the unique indexes
UniqueIndexOff(username, email) == TRUE

\* userSchema `unique: true` on username and on email: the unique indexes
\* reject an insert that repeats either
UniqueIndexOk(username, email) ==
    /\ ExistingUserName(username) = {}
    /\ ExistingEmail(email) = {}

\* ------------------------------------------------------------------ signUp
SignUpStart(s, c, username, email, rawPassword) ==
    /\ Arrive(s)
    /\ LET r == [NewRequest("signUp", c) EXCEPT
                    !.username = username, !.email = email,
                    !.password = rawPassword,
                    !.missing = Undefined \in {username, email, rawPassword}
                                \/ "" \in {username, email, rawPassword},
                    !.dup = \E u \in users : u.username = username
                                               \/ u.email = email] IN
       IF Falsy(username) \/ Falsy(email) \/ Falsy(rawPassword)
       THEN /\ Reply(s, r, ErrorHandler(createHttpError(400, "missing user data")))
            /\ Touch(r)
       ELSE /\ Await(s, r, "findUsername")
            /\ UNCHANGED <<cookie, expires>>
    /\ UNCHANGED <<users, notes, store, nextSid, nextNoteId, destroyed>>

SignUpFindUsername(s) ==
    /\ At(s, "signUp", "findUsername")
    /\ LET r == inflight[s] IN
       IF ExistingUserName(r.username) # {}
       THEN /\ Reply(s, r, ErrorHandler(createHttpError(409,
                     "username already exists. Please choose a different one or login instead.")))
            /\ Touch(r)
       ELSE /\ Await(s, r, "findEmail")
            /\ UNCHANGED <<cookie, expires>>
    /\ UNCHANGED <<users, notes, store, nreq, nextSid, nextNoteId, destroyed>>

SignUpFindEmail(s) ==
    /\ At(s, "signUp", "findEmail")
    /\ LET r == inflight[s] IN
       IF ExistingEmail(r.email) # {}
       THEN /\ Reply(s, r, ErrorHandler(createHttpError(409,
                     "email already exists. Please choose a different one or login instead")))
            /\ Touch(r)
       ELSE /\ Await(s, r, "create")
            /\ UNCHANGED <<cookie, expires>>
    /\ UNCHANGED <<users, notes, store, nreq, nextSid, nextNoteId, destroyed>>

\* bcrypt.hash, UserModel.create, session.userId = newUser._id, 201 + newUser
SignUpCreate(s) ==
    /\ At(s, "signUp", "create")
    /\ LET r == inflight[s]
           newUser == [_id |-> Cardinality(users) + 1, username |-> r.username,
                       email |-> r.email, password |-> bcryptHash(r.password)] IN
       IF UniqueIndexOk(r.username, r.email)
       THEN /\ users' = users \cup {newUser}
            /\ SaveSession(r, newUser._id)
            /\ Reply(s, r, Success(201, "user", newUser))
       ELSE /\ Reply(s, r, ErrorHandler(MongoError("E11000 duplicate key error")))
            /\ SessionUntouched(r)
            /\ UNCHANGED users
    /\ UNCHANGED <<notes, nreq, nextNoteId>>

\* ------------------------------------------------------------------- login
\* a message that tells the client the username is not registered
UserNotFoundErrorDetailed == createHttpError(401, "This user does not exist")

\* login: no user has the username
UserNotFoundError == createHttpError(401, "Invalid credentials")

\* login: the password does not match the stored hash
PasswordMismatchError == createHttpError(401, "Invalid credentials")

LoginStart(s, c, username, rawPassword) ==
    /\ Arrive(s)
    /\ LET r == [NewRequest("login", c) EXCEPT
                    !.username = username, !.password = rawPassword,
                    !.missing = Undefined \in {username, rawPassword}
                                \/ "" \in {username, rawPassword}] IN
       IF Falsy(username) \/ Falsy(rawPassword)
       THEN /\ Reply(s, r, ErrorHandler(createHttpError(400, "Missing parameters")))
            /\ Touch(r)
       ELSE /\ Await(s, r, "findOne")
            /\ UNCHANGED <<cookie, expires>>
    /\ UNCHANGED <<users, notes, store, nextSid, nextNoteId, destroyed>>

\* UserModel.findOne({username}).select("+password +email")
LoginFindOne(s) ==
    /\ At(s, "login", "findOne")
    /\ LET r == inflight[s] IN
       IF ExistingUserName(r.username) = {}
       THEN /\ Reply(s, r, ErrorHandler(UserNotFoundError))
            /\ Touch(r)
       ELSE /\ Await(s, [r EXCEPT !.doc =
                     Select(CHOOSE u \in ExistingUserName(r.username) : TRUE,
                            {"password", "email"})], "compare")
            /\ UNCHANGED <<cookie, expires>>
    /\ UNCHANGED <<users, notes, store, nreq, nextSid, nextNoteId, destroyed>>

\* bcrypt.compare, session.userId = user._id, 201 + user
LoginCompare(s) ==
    /\ At(s, "login", "compare")
    /\ LET r == inflight[s] IN
       IF ~bcryptCompare(r.password, r.doc.password)
       THEN /\ Reply(s, r, ErrorHandler(PasswordMismatchError))
            /\ SessionUntouched(r)
       ELSE /\ SaveSession(r, r.doc._id)
            /\ Reply(s, r, Success(201, "user", r.doc))
    /\ UNCHANGED <<users, notes, nreq, nextNoteId>>

\* ------------------------------------------------------------------ logout
LogoutStart(s, c) ==
    /\ Arrive(s)
    /\ Await(s, NewRequest("logout", c), "destroy")
    /\ UNCHANGED <<users, notes, store, cookie, expires, nextSid, nextNoteId,
                   destroyed>>

\* request.session.destroy(callback): the store entry is removed, then 200
LogoutDestroy(s) ==
    /\ At(s, "logout", "destroy")
    /\ LET r == inflight[s] IN
       /\ store' = DestroySession(r.sid)
       /\ expires' = [x \in DOMAIN store' |-> expires[x]]
       /\ destroyed' = IF r.sid # 0 THEN destroyed \cup {r.sid} ELSE destroyed
       /\ Reply(s, r, Success(200, "text", NoBody))
    /\ UNCHANGED <<users, notes, cookie, nreq, nextSid, nextNoteId>>

\* ---------------------------------------------------- getAuthenticatedUser
\* the early users router: router.get("/", getAuthenticatedUser)
UsersRouteUnguarded(r) == TRUE

\* routes/users.ts: router.get("/", requiresAuth, getAuthenticatedUser)
UsersRouteGuard(r) == requiresAuth(r)

GetAuthenticatedUserStart(s, c) ==
    /\ Arrive(s)
    /\ LET r == NewRequest("getAuthenticatedUser", c) IN
       IF ~UsersRouteGuard(r)
       THEN /\ Reply(s, r, Unauthenticated)
            /\ Touch(r)
       ELSE /\ Await(s, r, "findById")
            /\ UNCHANGED <<cookie, expires>>
    /\ UNCHANGED <<users, notes, store, nextSid, nextNoteId, destroyed>>

\* UserModel.findById(authenticatedUserId).select("+email"), 200 + user
GetAuthenticatedUserFind(s) ==
    /\ At(s, "getAuthenticatedUser", "findById")
    /\ LET r == inflight[s]
           user == FindUserById(r.uid) IN
       /\ Reply(s, r, IF user = NullDoc
                       THEN Success(200, "null", NoBody)
                       ELSE Success(200, "user", Select(user, {"email"})))
       /\ Touch(r)
    /\ UNCHANGED <<users, notes, store, nreq, nextSid, nextNoteId, destroyed>>

\* ------------------------------------------------------------ Note queries
\* the early app: app.use("/api/notes", notesRoutes)
NotesRouteUnguarded(r) == TRUE

\* app.ts: app.use("/api/notes", requiresAuth, notesRoutes)
NotesRouteGuard(r) == requiresAuth(r)

FindNoteById(id) ==
    IF \E n \in notes : n._id = id
    THEN CHOOSE n \in notes : n._id = id
    ELSE NullDoc

NoteIdInputs == {ObjectId(1), ObjectId(2)} \cup MalformedIds

\* timestamps that are written anew by every save
TimestampsReset(doc, isNew, isModified) ==
    [f \in DOMAIN doc \cup {"createdAt", "updatedAt"} |->
        IF f \in {"createdAt", "updatedAt"} THEN now ELSE doc[f]]

\* noteSchema `timestamps: true`: a new document gets createdAt and
\* updatedAt of the same instant; a save that modifies a stored document
\* sets its updatedAt and leaves createdAt
Timestamps(doc, isNew, isModified) ==
    [f \in DOMAIN doc \cup {"createdAt", "updatedAt"} |->
        IF f = "createdAt" THEN (IF isNew THEN now ELSE doc.createdAt)
        ELSE IF f = "updatedAt"
        THEN (IF isNew \/ isModified THEN now ELSE doc.updatedAt)
        ELSE doc[f]]

\* a removal that leaves the document in the collection
NoteRemoveNothing(id) == notes

\* note.remove(): the collection without the document
NoteRemove(id) == {n \in notes : n._id # id}

\* a missing title left to the schema validation of mongoose
NoteTitleValidationError == MongoError("Note validation failed: title is required")

\* createNote, updateNote: the title is missing
NoteTitleError == createHttpError(400, "Note must have a title")

\* a find that returns the notes the user of the session created
NoteModelFindOwn(r) == {n \in notes : creator[n._id] = r.uid}

\* NoteModel.find().exec() in the handler of the request r: every stored note
NoteModelFind(r) == notes

\* ---------------------------------------------------------------- getNotes
GetNotesStart(s, c) ==
    /\ Arrive(s)
    /\ LET r == NewRequest("getNotes", c) IN
       IF ~NotesRouteGuard(r)
       THEN /\ Reply(s, r, Unauthenticated)
            /\ Touch(r)
       ELSE /\ Await(s, r, "find")
            /\ UNCHANGED <<cookie, expires>>
    /\ UNCHANGED <<users, notes, store, nextSid, nextNoteId, destroyed>>

GetNotesFind(s) ==
    /\ At(s, "getNotes", "find")
    /\ LET r == inflight[s] IN
       /\ Reply(s, r, Success(200, "notes", NoteModelFind(r)))
       /\ Touch(r)
    /\ UNCHANGED <<users, notes, store, nreq, nextSid, nextNoteId, destroyed>>

\* ----------------------------------------------------------------- getNote
GetNoteStart(s, c, noteId) ==
    /\ Arrive(s)
    /\ LET r == [NewRequest("getNote", c) EXCEPT !.noteId = noteId,
                    !.gone = noteId \in deleted] IN
       IF ~NotesRouteGuard(r)
       THEN /\ Reply(s, r, Unauthenticated)
            /\ Touch(r)
       ELSE IF ~isValidObjectId(noteId)
       THEN /\ Reply(s, r, ErrorHandler(createHttpError(400, "invalid noteId")))
            /\ Touch(r)
       ELSE /\ Await(s, r, "findById")
            /\ UNCHANGED <<cookie, expires>>
    /\ UNCHANGED <<users, notes, store, nextSid, nextNoteId, destroyed>>

GetNoteFind(s) ==
    /\ At(s, "getNote", "findById")
    /\ LET r == inflight[s]
           note == FindNoteById(r.noteId) IN
       /\ Reply(s, r, IF note = NullDoc
                       THEN ErrorHandler(createHttpError(404, "Note not found"))
                       ELSE Success(200, "note", note))
       /\ Touch(r)
    /\ UNCHANGED <<users, notes, store, nreq, nextSid, nextNoteId, destroyed>>

\* -------------------------------------------------------------- createNote
CreateNoteStart(s, c, title, text) ==
    /\ Arrive(s)
    /\ LET r == [NewRequest("createNote", c) EXCEPT
                    !.title = title, !.text = text,
                    !.missing = title \in {Undefined, ""}] IN
       IF ~NotesRouteGuard(r)
       THEN /\ Reply(s, r, Unauthenticated)
            /\ Touch(r)
       ELSE IF Falsy(title)
       THEN /\ Reply(s, r, ErrorHandler(NoteTitleError))
            /\ Touch(r)
       ELSE /\ Await(s, r, "create")
            /\ UNCHANGED <<cookie, expires>>
    /\ UNCHANGED <<users, notes, store, nextSid, nextNoteId, destroyed>>

CreateNoteCreate(s) ==
    /\ At(s, "createNote", "create")
    /\ LET r == inflight[s]
           newNote == Timestamps([_id |-> ObjectId(nextNoteId),
                                  title |-> r.title, text |-> r.text],
                                 TRUE, FALSE) IN
       /\ notes' = notes \cup {newNote}
       /\ nextNoteId' = nextNoteId + 1
       /\ Reply(s, r, Success(201, "note", newNote))
       /\ Touch(r)
    /\ UNCHANGED <<users, store, nreq, nextSid, destroyed>>

\* -------------------------------------------------------------- updateNote
\* an update that checks the title before the noteId
UpdateNoteChecksTitleFirst(noteId, updatedTitle) ==
    IF Falsy(updatedTitle) THEN NoteTitleError
    ELSE IF ~isValidObjectId(noteId) THEN createHttpError(400, "invalid noteId")
    ELSE NoError

\* updateNote: the checks before the first await, in their order, and the
\* error the first failing one throws
UpdateNoteChecks(noteId, updatedTitle) ==
    IF ~isValidObjectId(noteId) THEN createHttpError(400, "invalid noteId")
    ELSE IF Falsy(updatedTitle) THEN NoteTitleError
    ELSE NoError

UpdateNoteStart(s, c, noteId, updatedTitle, updatedText) ==
    /\ Arrive(s)
    /\ LET r == [NewRequest("updateNote", c) EXCEPT !.noteId = noteId,
                    !.title = updatedTitle, !.text = updatedText,
                    !.missing = updatedTitle \in {Undefined, ""},
                    !.gone = noteId \in deleted] IN
       IF ~NotesRouteGuard(r)
       THEN /\ Reply(s, r, Unauthenticated)
            /\ Touch(r)
       ELSE IF UpdateNoteChecks(noteId, updatedTitle) # NoError
       THEN /\ Reply(s, r, ErrorHandler(UpdateNoteChecks(noteId, updatedTitle)))
            /\ Touch(r)
       ELSE /\ Await(s, r, "findById")
            /\ UNCHANGED <<cookie, expires>>
    /\ UNCHANGED <<users, notes, store, nextSid, nextNoteId, destroyed>>

UpdateNoteFind(s) ==
    /\ At(s, "updateNote", "findById")
    /\ LET r == inflight[s]
           note == FindNoteById(r.noteId) IN
       IF note = NullDoc
       THEN /\ Reply(s, r, ErrorHandler(createHttpError(404, "Note not found")))
            /\ Touch(r)
       ELSE /\ Await(s, [r EXCEPT !.doc = note], "save")
            /\ UNCHANGED <<cookie, expires>>
    /\ UNCHANGED <<users, notes, store, nreq, nextSid, nextNoteId, destroyed>>

\* note.title = updatedTitle; note.text = updatedText; note.save()
\* save() writes the paths that differ from the document as it was found,
\* and updatedAt (timestamps: true) when one does; createdAt is never
\* written again.  save() of a document that was removed meanwhile matches
\* nothing and rejects with DocumentNotFoundError.
UpdateNoteSave(s) ==
    /\ At(s, "updateNote", "save")
    /\ LET r == inflight[s]
           stored == FindNoteById(r.noteId)
           isModified == r.title # r.doc.title \/ r.text # r.doc.text
           updatedNote ==
               Timestamps([r.doc EXCEPT !.title = r.title, !.text = r.text],
                          FALSE, isModified)
           written ==
               Timestamps(
                   [stored EXCEPT
                       !.title = IF r.title # r.doc.title THEN r.title ELSE @,
                       !.text  = IF r.text # r.doc.text THEN r.text ELSE @],
                   FALSE, isModified) IN
       IF stored = NullDoc
       THEN /\ Reply(s, r, ErrorHandler(MongoError("No document found for query")))
            /\ UNCHANGED notes
       ELSE /\ notes' = {n \in notes : n._id # r.noteId} \cup {written}
            /\ Reply(s, r, Success(200, "note", updatedNote))
    /\ Touch(inflight[s])
    /\ UNCHANGED <<users, store, nreq, nextSid, nextNoteId, destroyed>>

\* -------------------------------------------------------------- deleteNote
DeleteNoteStart(s, c, noteId) ==
    /\ Arrive(s)
    /\ LET r == [NewRequest("deleteNote", c) EXCEPT !.noteId = noteId,
                    !.gone = noteId \in deleted] IN
       IF ~NotesRouteGuard(r)
       THEN /\ Reply(s, r, Unauthenticated)
            /\ Touch(r)
       ELSE IF ~isValidObjectId(noteId)
       THEN /\ Reply(s, r, ErrorHandler(createHttpError(400, "invalid noteId")))
            /\ Touch(r)
       ELSE /\ Await(s, r, "findById")
            /\ UNCHANGED <<cookie, expires>>
    /\ UNCHANGED <<users, notes, store, nextSid, nextNoteId, destroyed>>

DeleteNoteFind(s) ==
    /\ At(s, "deleteNote", "findById")
    /\ LET r == inflight[s]
           note == FindNoteById(r.noteId) IN
       IF note = NullDoc
       THEN /\ Reply(s, r, ErrorHandler(createHttpError(404, "Note not found")))
            /\ Touch(r)
       ELSE /\ Await(s, [r EXCEPT !.doc = note], "remove")
            /\ UNCHANGED <<cookie, expires>>
    /\ UNCHANGED <<users, notes, store, nreq, nextSid, nextNoteId, destroyed>>

\* note.remove(), 204
DeleteNoteRemove(s) ==
    /\ At(s, "deleteNote", "remove")
    /\ LET r == inflight[s] IN
       /\ notes' = NoteRemove(r.noteId)
       /\ Reply(s, r, Success(204, "text", NoBody))
       /\ Touch(r)
    /\ UNCHANGED <<users, store, nreq, nextSid, nextNoteId, destroyed>>

\* ------------------------------------------------- notes page: user events
\* a step of the page that sends no request
PageStep ==
    /\ lastResp' = NoResp
    /\ lastCall' = NoCall
    /\ UNCHANGED <<users, notes, store, cookie, inflight, nreq, nextSid,
                   nextNoteId, destroyed, loginFail, now, expires, deleted,
                   life, creator, nresp, expect, savedBy>>

\* a dialog is shown; it is a modal, so the page behind it takes no click
ModalShown == app.showAddNoteDialog \/ app.noteToEdit # NullDoc

\* "Add New Note": setShowAddNoteDialog(true) mounts a dialog with a new form
onAddNewNoteClicked ==
    /\ app.mounted /\ ~ModalShown
    /\ form.inst < MaxDialogs
    /\ app' = [app EXCEPT !.showAddNoteDialog = TRUE]
    /\ form' = [inst |-> form.inst + 1, isSubmitting |-> FALSE]
    /\ PageStep

\* onNoteClicked={setNoteToEdit} mounts the dialog on the i-th note shown
onNoteClicked(i) ==
    /\ app.mounted /\ ~ModalShown
    /\ form.inst < MaxDialogs
    /\ i \in DOMAIN app.notes
    /\ app' = [app EXCEPT !.noteToEdit = app.notes[i]]
    /\ form' = [inst |-> form.inst + 1, isSubmitting |-> FALSE]
    /\ PageStep

\* onDismiss of either dialog
onDismiss ==
    /\ ModalShown
    /\ app' = [app EXCEPT !.showAddNoteDialog = FALSE, !.noteToEdit = NullDoc]
    /\ UNCHANGED form
    /\ PageStep

\* onDeleteNoteClicked of the i-th note shown: deleteNote(note._id) up to
\* its await; the request is sent
onDeleteNoteClicked(s, i) ==
    /\ app.mounted /\ ~ModalShown
    /\ i \in DOMAIN app.notes
    /\ DeleteNoteStart(s, "c1", app.notes[i]._id)

\* a Save button that is never disabled
SaveEnabledAlways(f) == FALSE

\* <Button type="submit" disabled={isSubmitting}>
SaveDisabled(f) == f.isSubmitting

\* Save: handleSubmit validates (title is required) and runs onCreate up to
\* its await; the request is sent
onCreate(s, title, text) ==
    /\ app.mounted /\ ModalShown
    /\ ~SaveDisabled(form)
    /\ title # ""
    /\ IF app.noteToEdit # NullDoc
       THEN UpdateNoteStart(s, "c1", app.noteToEdit._id, title, text)
       ELSE CreateNoteStart(s, "c1", title, text)

\* ------------------------------------------------------------ session expiry
\* cookie.maxAge: a stored session that saw no request for an hour is removed
\* by the store
Expire(sid) ==
    /\ sid \in DOMAIN store
    /\ store' = DestroySession(sid)
    /\ expires' = [x \in DOMAIN store' |-> expires[x]]
    /\ lastResp' = NoResp
    /\ lastCall' = NoCall
    /\ UNCHANGED <<users, notes, cookie, inflight, nreq, nextSid, nextNoteId,
                   destroyed, loginFail, now, deleted, life, creator, nresp,
                   app, form, expect, savedBy>>

\* ------------------------------------------------------------------ faults
\* the callback of destroy gets an error and the handler neither answers
\* nor forwards it
LogoutDestroyErrorDropped(s) ==
    /\ At(s, "logout", "destroy")
    /\ Await(s, inflight[s], "dropped")
    /\ UNCHANGED <<users, notes, store, cookie, expires, nreq, nextSid,
                   nextNoteId, destroyed>>

\* the callback of destroy gets an error and the handler answers 200 all the
\* same
LogoutDestroyErrorIgnored(s) ==
    /\ At(s, "logout", "destroy")
    /\ Reply(s, inflight[s], Success(200, "text", NoBody))
    /\ UNCHANGED <<users, notes, store, cookie, expires, nreq, nextSid,
                   nextNoteId, destroyed>>

\* request.session.destroy(callback): the store fails and the callback gets
\* the error, which goes to next(error); the entry may or may not be gone
LogoutDestroyError(s) ==
    /\ At(s, "logout", "destroy")
    /\ LET r == inflight[s] IN
       /\ \E removed \in BOOLEAN :
             /\ store' = IF removed THEN DestroySession(r.sid) ELSE store
             /\ destroyed' = IF removed /\ r.sid # 0 THEN destroyed \cup {r.sid}
                                                     ELSE destroyed
       /\ expires' = [x \in DOMAIN store' |-> expires[x]]
       /\ Reply(s, r, ErrorHandler(MongoError("session store: destroy failed")))
    /\ UNCHANGED <<users, notes, cookie, nreq, nextSid, nextNoteId>>

\* the database operation a users handler awaits is rejected (nothing is
\* written) and the catch block forwards the error: next(error)
DatabaseError(s) ==
    /\ inflight[s].kind \in UserKinds
    /\ LET r == inflight[s] IN
       /\ Reply(s, r, ErrorHandler(MongoError("database: connection lost")))
       /\ SessionUntouched(r)
    /\ UNCHANGED <<users, notes, nreq, nextNoteId>>

\* the database operation a notes handler awaits is rejected (nothing is
\* written) and the catch block forwards the error: next(error)
NotesDatabaseError(s) ==
    /\ inflight[s].kind \in NotesKinds
    /\ LET r == inflight[s] IN
       /\ Reply(s, r, ErrorHandler(MongoError("database: connection lost")))
       /\ SessionUntouched(r)
    /\ UNCHANGED <<users, notes, nreq, nextNoteId>>

\* session(): the store fails to load the session and the middleware
\* forwards the error; the request has no session and no handler runs
SessionLoadError(s, c) ==
    /\ Arrive(s)
    /\ Reply(s, [NewRequest("any", c) EXCEPT !.sid = 0, !.uid = 0],
             ErrorHandler(MongoError("session store: get failed")))
    /\ UNCHANGED <<users, notes, store, cookie, expires, nextSid, nextNoteId,
                   destroyed>>

\* app.ts: the middleware behind the routers answers every other path
EndpointNotFound(s, c) ==
    /\ Arrive(s)
    /\ LET r == NewRequest("notFound", c) IN
       /\ Reply(s, r, ErrorHandler(createHttpError(404, "endpoint not found")))
       /\ Touch(r)
    /\ UNCHANGED <<users, notes, store, nextSid, nextNoteId, destroyed>>

\* the clock advances
Tick ==
    /\ now < MaxTime
    /\ now' = now + 1
    /\ lastResp' = NoResp
    /\ lastCall' = NoCall
    /\ UNCHANGED <<users, notes, store, cookie, inflight, nreq, nextSid,
                   nextNoteId, destroyed, loginFail, expires, deleted, life,
                   creator, nresp, app, form, expect, savedBy>>

\* the store removes a session whose time has come (TTL index on expires)
TtlExpire(sid) ==
    /\ sid \in DOMAIN store
    /\ now >= expires[sid]
    /\ Expire(sid)

\* -------------------------------------------------------------------- Next
\* one step of a handler that is awaiting
UsersStep(s) ==
    \/ SignUpFindUsername(s)
    \/ SignUpFindEmail(s)
    \/ SignUpCreate(s)
    \/ LoginFindOne(s)
    \/ LoginCompare(s)
    \/ LogoutDestroy(s)
    \/ GetAuthenticatedUserFind(s)

NotesStep(s) ==
    \/ GetNotesFind(s)
    \/ GetNoteFind(s)
    \/ CreateNoteCreate(s)
    \/ UpdateNoteFind(s)
    \/ UpdateNoteSave(s)
    \/ DeleteNoteFind(s)
    \/ DeleteNoteRemove(s)

\* the users API with every body, from one browser
Next ==
    \/ \E s \in Slots, c \in Browsers :
          \/ \E b \in SignUpBodies :
                SignUpStart(s, c, b.username, b.email, b.password)
          \/ \E b \in LoginBodies : LoginStart(s, c, b.username, b.password)
          \/ LogoutStart(s, c)
          \/ GetAuthenticatedUserStart(s, c)
    \/ \E s \in Slots : UsersStep(s)

Spec == Init /\ [][Next]_vars

\* the sessions of two browsers, each with its own account
NextSessions ==
    \/ \E s \in Slots, c \in Clients :
          \/ SignUpStart(s, c, AccountOf[c].username, AccountOf[c].email,
                         AccountOf[c].password)
          \/ \E p \in Passwords : LoginStart(s, c, AccountOf[c].username, p)
          \/ LogoutStart(s, c)
          \/ GetAuthenticatedUserStart(s, c)
          \/ GetNotesStart(s, c)
    \/ \E s \in Slots : UsersStep(s) \/ GetNotesFind(s)
    \/ \E sid \in DOMAIN store : Expire(sid)

SpecSessions == Init /\ [][NextSessions]_vars

\* the notes API with every id and body, from two browsers
NextNotes ==
    \/ \E s \in Slots, c \in Clients :
          \/ SignUpStart(s, c, AccountOf[c].username, AccountOf[c].email,
                         AccountOf[c].password)
          \/ GetNotesStart(s, c)
          \/ \E id \in NoteIdInputs : GetNoteStart(s, c, id)
          \/ \E t \in TitleInputs, x \in TextInputs : CreateNoteStart(s, c, t, x)
          \/ \E id \in NoteIdInputs, t \in NewTitleInputs, x \in TextInputs :
                UpdateNoteStart(s, c, id, t, x)
          \/ \E id \in NoteIdInputs : DeleteNoteStart(s, c, id)
    \/ \E s \in Slots :
          \/ SignUpFindUsername(s)
          \/ SignUpFindEmail(s)
          \/ SignUpCreate(s)
          \/ NotesStep(s)

SpecNotes == Init /\ [][NextNotes]_vars

\* the users API of one browser while the database and the session store
\* may fail
NextFaults ==
    \/ \E s \in Slots, c \in Browsers :
          \/ SignUpStart(s, c, AccountOf[c].username, AccountOf[c].email,
                         AccountOf[c].password)
          \/ \E p \in Passwords : LoginStart(s, c, AccountOf[c].username, p)
          \/ LogoutStart(s, c)
          \/ GetAuthenticatedUserStart(s, c)
          \/ SessionLoadError(s, c)
          \/ EndpointNotFound(s, c)
    \/ \E s \in Slots :
          \/ UsersStep(s)
          \/ LogoutDestroyError(s)
          \/ DatabaseError(s)

SpecFaults == Init /\ [][NextFaults]_vars

\* the session of one browser under the clock
NextRolling ==
    \/ \E s \in Slots, c \in Browsers :
          \/ SignUpStart(s, c, AccountOf[c].username, AccountOf[c].email,
                         AccountOf[c].password)
          \/ GetNotesStart(s, c)
          \/ EndpointNotFound(s, c)
    \/ \E s \in Slots :
          \/ SignUpFindUsername(s)
          \/ SignUpFindEmail(s)
          \/ SignUpCreate(s)
          \/ GetNotesFind(s)
    \/ \E sid \in DOMAIN store : TtlExpire(sid)
    \/ Tick

SpecRolling == Init /\ [][NextRolling]_vars

\* the notes of a signed-up browser, with every id and body
NextNoteLife ==
    \/ \E s \in Slots, c \in Browsers :
          \/ GetNotesStart(s, c)
          \/ \E id \in NoteIdInputs : GetNoteStart(s, c, id)
          \/ \E t \in TitleInputs, x \in TextInputs : CreateNoteStart(s, c, t, x)
          \/ \E id \in NoteIdInputs, t \in NewTitleInputs, x \in TextInputs :
                UpdateNoteStart(s, c, id, t, x)
          \/ \E id \in NoteIdInputs : DeleteNoteStart(s, c, id)
    \/ \E s \in Slots : NotesStep(s)

SpecNoteLife == InitSignedUp /\ [][NextNoteLife]_vars

\* one note of a signed-up browser is created, read and updated while the
\* clock advances
NextTimestamps ==
    \/ \E s \in Slots, c \in Browsers :
          \/ \E t \in Titles, x \in Texts : CreateNoteStart(s, c, t, x)
          \/ GetNoteStart(s, c, ObjectId(1))
          \/ \E t \in NewTitles, x \in Texts :
                UpdateNoteStart(s, c, ObjectId(1), t, x)
    \/ \E s \in Slots :
          \/ CreateNoteCreate(s)
          \/ GetNoteFind(s)
          \/ UpdateNoteFind(s)
          \/ UpdateNoteSave(s)
    \/ Tick

SpecTimestamps == InitSignedUp /\ [][NextTimestamps]_vars

\* one note of a signed-up browser is created, read and updated by
\* concurrent requests, with every title and text
NextUpdates ==
    \/ \E s \in Slots, c \in Browsers :
          \/ \E t \in Titles, x \in TextInputs : CreateNoteStart(s, c, t, x)
          \/ GetNoteStart(s, c, ObjectId(1))
          \/ \E t \in Titles \cup NewTitles, x \in TextInputs :
                UpdateNoteStart(s, c, ObjectId(1), t, x)
    \/ \E s \in Slots :
          \/ CreateNoteCreate(s)
          \/ GetNoteFind(s)
          \/ UpdateNoteFind(s)
          \/ UpdateNoteSave(s)

SpecUpdates == InitSignedUp /\ [][NextUpdates]_vars

\* the notes of two signed-up browsers of different users
NextShared ==
    \/ \E s \in Slots, c \in Clients :
          \/ GetNotesStart(s, c)
          \/ GetNoteStart(s, c, ObjectId(1))
          \/ \E t \in Titles, x \in Texts : CreateNoteStart(s, c, t, x)
          \/ \E t \in NewTitles, x \in Texts :
                UpdateNoteStart(s, c, ObjectId(1), t, x)
          \/ DeleteNoteStart(s, c, ObjectId(1))
    \/ \E s \in Slots : NotesStep(s)

SpecShared == InitTwoSignedUp /\ [][NextShared]_vars

\* the notes page of the signed-up browser c1: the user adds, edits and
\* deletes notes
NextClient ==
    \/ onAddNewNoteClicked
    \/ onNoteClicked(1)
    \/ onDismiss
    \/ \E s \in Slots, i \in 1..Len(app.notes) : onDeleteNoteClicked(s, i)
    \/ \E s \in Slots, t \in NewTitles \cup {""} : onCreate(s, t, "X")
    \/ \E s \in Slots :
          \/ CreateNoteCreate(s)
          \/ UpdateNoteFind(s)
          \/ UpdateNoteSave(s)
          \/ DeleteNoteFind(s)
          \/ DeleteNoteRemove(s)

SpecClient == InitClient /\ [][NextClient]_vars

\* the notes page when the database can fail under a notes request
NextClientFaults ==
    \/ NextClient
    \/ \E s \in Slots : NotesDatabaseError(s)

SpecClientFaults == InitClient /\ [][NextClientFaults]_vars

\* the database or session-store call that the handler in slot s awaits
\* completes, with success or with failure
Completes(s) ==
    \/ GetNotesFind(s)
    \/ LoginFindOne(s)
    \/ LoginCompare(s)
    \/ LogoutDestroy(s)
    \/ LogoutDestroyError(s)
    \/ DatabaseError(s)
    \/ NotesDatabaseError(s)

\* a signed-up browser reads its notes, logs in and logs out while the
\* database and the session store may fail
NextLive ==
    \/ \E s \in Slots, c \in Browsers :
          \/ GetNotesStart(s, c)
          \/ LoginStart(s, c, AccountOf[c].username, AccountOf[c].password)
          \/ LogoutStart(s, c)
          \/ SessionLoadError(s, c)
    \/ \E s \in Slots : Completes(s)

\* every call that a handler awaits completes in the end
SpecLive ==
    /\ InitSignedUp
    /\ [][NextLive]_vars
    /\ \A s \in Slots : WF_vars(Completes(s))

\* ================================================================== claims

\* C1: a request to any notes endpoint whose session carries no userId is
\* answered 401 by the guard, before any notes handler runs: it is answered
\* at once, never reaches an await point of a handler, and leaves the notes
\* collection as it was.
C1_UnauthenticatedNotes401 ==
    [][ /\ (lastResp'.kind \in NotesKinds /\ lastResp'.uid = 0)
             => /\ lastResp'.status = 401
                /\ lastResp'.at = "start"
                /\ notes' = notes
        /\ \A s \in Slots :
             inflight'[s].kind \in NotesKinds => inflight'[s].uid # 0 ]_vars

W_C1 ==
    /\ lastResp.kind = "deleteNote"
    /\ lastResp.uid = 0
    /\ lastResp.status = 401
    /\ notes # {}

\* C2: no body of a signup, login or get-authenticated-user response that
\* carries a user contains the password field.
C2_NoPasswordInBody ==
    (lastResp.kind \in UserKinds /\ lastResp.type = "user")
        => "password" \notin DOMAIN lastResp.body

\* C3 (as stated): every signup whose username or email is that of a stored
\* User is answered 409, and stores no User and binds no session.
C3_DuplicateAlways409 ==
    [][ (lastResp'.kind = "signUp" /\ lastResp'.dup)
           => /\ lastResp'.status = 409
              /\ users' = users
              /\ store' = store ]_vars

\* C3 (amended): every signup that carries a username, an email and a
\* password, and whose username or email is that of a User stored when the
\* request arrives, is answered 409, and stores no User and binds no session.
C3_DuplicateWithAllFields409 ==
    [][ (lastResp'.kind = "signUp" /\ lastResp'.dup /\ ~lastResp'.missing)
           => /\ lastResp'.status = 409
              /\ users' = users
              /\ store' = store ]_vars

W_C3 ==
    /\ lastResp.kind = "signUp"
    /\ lastResp.dup
    /\ ~lastResp.missing
    /\ lastResp.at = "findEmail"
    /\ lastResp.status = 409

\* C4: no two stored Users share a username and no two share an email, also
\* when concurrent signups interleave between their finds and their insert.
C4_UniqueUsers ==
    \A u1 \in users, u2 \in users :
        u1 # u2 => u1.username # u2.username /\ u1.email # u2.email

W_C4 ==
    /\ lastResp.kind = "signUp"
    /\ lastResp.at = "create"
    /\ lastResp.type = "error"
    /\ users # {}

\* C5: every response to a signup has status 201, 400 or 409.
C5_SignUpStatus ==
    lastResp.kind = "signUp" => lastResp.status \in {201, 400, 409}

\* C6: a signup without a username, email or password (absent or empty) and
\* a login without a username or password is answered 400, stores no User
\* and binds no session.
C6_MissingField400 ==
    [][ (lastResp'.kind \in {"signUp", "login"} /\ lastResp'.missing)
           => /\ lastResp'.status = 400
              /\ users' = users
              /\ store' = store ]_vars

W_C6 ==
    /\ lastResp.kind = "signUp"
    /\ lastResp.missing
    /\ lastResp.dup
    /\ lastResp.status = 400

\* C7: the logins refused for a wrong password and the logins refused for an
\* unknown username are indistinguishable: all of them carry the same status
\* (401) and the same body, and none binds a session.
C7_LoginEnumeration ==
    [][ /\ \A x \in loginFail', y \in loginFail' :
             x.status = 401 /\ x.status = y.status /\ x.body = y.body
        /\ (lastResp'.kind = "login" /\ lastResp'.type = "error")
             => store' = store ]_vars

W_C7 ==
    \E x \in loginFail, y \in loginFail : x.at = "findOne" /\ y.at = "compare"

\* C8: a signup or login answered 201 binds the browser's session to the
\* user it created or verified, and every get-authenticated-user request that
\* carries a bound session is answered 200 with exactly the _id, username
\* and email of the user the session names (no password).
C8_SessionBoundToUser ==
    [][ /\ \A s \in Slots :
             (/\ inflight[s].kind \in {"signUp", "login"}
              /\ inflight'[s] = Idle
              /\ lastResp'.status = 201)
             => /\ cookie'[inflight[s].c] \in DOMAIN store'
                /\ store'[cookie'[inflight[s].c]] = lastResp'.body._id
                /\ lastResp'.body.username = inflight[s].username
                /\ \E u \in users' : /\ u._id = lastResp'.body._id
                                     /\ u.username = inflight[s].username
        /\ (lastResp'.kind = "getAuthenticatedUser" /\ lastResp'.uid # 0)
             => /\ lastResp'.status = 200
                /\ lastResp'.type = "user"
                /\ \E u \in users :
                     /\ u._id = lastResp'.uid
                     /\ lastResp'.body = [_id |-> u._id, username |-> u.username,
                                          email |-> u.email] ]_vars

W_C8 ==
    /\ lastResp.kind = "getAuthenticatedUser"
    /\ lastResp.status = 200
    /\ lastResp.type = "user"
    /\ lastResp.body.username = "b"

\* C9: a logout answered 200 leaves no store entry for its session, and a
\* request to a guarded endpoint that carries the cookie of a session that
\* was logged out (and not bound again by a signup or login) is answered 401.
C9_LogoutEndsSession ==
    [][ /\ (lastResp'.kind = "logout" /\ lastResp'.status = 200)
             => lastResp'.sid \notin DOMAIN store'
        /\ (lastResp'.kind \in GuardedKinds /\ lastResp'.lo)
             => lastResp'.status = 401 ]_vars

W_C9 ==
    /\ lastResp.kind \in GuardedKinds
    /\ lastResp.lo
    /\ lastResp.status = 401

\* C10: get-authenticated-user answers 401 when the session carries no
\* userId, and a 200 answer carries the stored user the session names, never
\* a null user.
C10_AuthenticatedUserOr401 ==
    lastResp.kind = "getAuthenticatedUser"
        => /\ lastResp.uid = 0 => lastResp.status = 401
           /\ lastResp.status \in {200, 401}
           /\ lastResp.status = 200
                => /\ lastResp.type = "user"
                   /\ lastResp.body._id = lastResp.uid
                   /\ \E u \in users : /\ u._id = lastResp.uid
                                       /\ u.username = lastResp.body.username

W_C10 ==
    /\ lastResp.kind = "getAuthenticatedUser"
    /\ lastResp.uid = 0
    /\ lastResp.status = 401
    /\ users # {}

\* C11: every stored Note has a title that is present and not empty, whatever
\* titles the create, update and delete requests carried.
C11_StoredTitleNonEmpty ==
    \A n \in notes : n.title # Undefined /\ n.title # ""

W_C11 ==
    /\ lastResp.kind = "updateNote"
    /\ lastResp.status = 200
    /\ notes # {}

\* C12: a note creation request of an authenticated session whose title is
\* absent or empty is answered 400 and leaves the Note collection as it was.
C12_CreateWithoutTitle400 ==
    [][ (lastResp'.kind = "createNote" /\ lastResp'.uid # 0 /\ lastResp'.missing)
           => /\ lastResp'.status = 400
              /\ notes' = notes ]_vars

W_C12 ==
    /\ lastResp.kind = "createNote"
    /\ lastResp.uid # 0
    /\ lastResp.missing
    /\ lastResp.status = 400
    /\ notes # {}

\* C13: round trip.  A creation answered 201 stores a new note with the title
\* and text of the request and createdAt equal to updatedAt, and answers with
\* it; a get answered 200 answers with the stored note of the requested id;
\* a stored note changes only by an update answered 200; and no step changes
\* the createdAt of a stored note, lowers its updatedAt or leaves updatedAt
\* below createdAt.  So a note fetched after its creation has the created
\* title, text and createdAt = updatedAt, and after any update still its
\* createdAt and updatedAt >= createdAt.
C13_RoundTrip ==
    [][ /\ \A s \in Slots :
             (/\ inflight[s].kind = "createNote"
              /\ inflight'[s] = Idle
              /\ lastResp'.status = 201)
             => /\ lastResp'.body.title = inflight[s].title
                /\ lastResp'.body.text = inflight[s].text
                /\ lastResp'.body.createdAt = lastResp'.body.updatedAt
                /\ lastResp'.body \in notes'
                /\ \A n \in notes : n._id # lastResp'.body._id
        /\ \A s \in Slots :
             (/\ inflight[s].kind = "getNote"
              /\ inflight'[s] = Idle
              /\ lastResp'.status = 200)
             => /\ lastResp'.body \in notes
                /\ lastResp'.body._id = inflight[s].noteId
        /\ \A s \in Slots :
             (/\ inflight[s].kind = "updateNote"
              /\ inflight'[s] = Idle
              /\ lastResp'.status = 200)
             => /\ lastResp'.body.title = inflight[s].title
                /\ lastResp'.body.text = inflight[s].text
                /\ lastResp'.body.updatedAt >= lastResp'.body.createdAt
                /\ \E n \in notes : /\ n._id = lastResp'.body._id
                                     /\ n.createdAt = lastResp'.body.createdAt
        /\ \A n \in notes, m \in notes' :
             m._id = n._id
             => /\ m.createdAt = n.createdAt
                /\ m.updatedAt >= n.updatedAt
                /\ m # n => lastResp'.kind = "updateNote" /\ lastResp'.status = 200
        /\ \A m \in notes' : m.updatedAt >= m.createdAt ]_vars

W_C13 ==
    /\ lastResp.kind = "getNote"
    /\ lastResp.status = 200
    /\ lastResp.body.title \in NewTitles
    /\ lastResp.body.updatedAt > lastResp.body.createdAt
    /\ lastResp.body.createdAt > 0

ByIdKinds == {"getNote", "updateNote", "deleteNote"}

\* C14 (as stated): every get, update or delete request of an authenticated
\* session for an id whose deletion was answered 204 before the request
\* arrived is answered 404, and no list response carries a note of such an id.
C14_DeletedAlways404 ==
    [][ /\ (lastResp'.kind \in ByIdKinds /\ lastResp'.uid # 0 /\ lastResp'.gone)
             => lastResp'.status = 404
        /\ (lastResp'.kind = "getNotes" /\ lastResp'.status = 200)
             => \A n \in lastResp'.body : n._id \notin deleted ]_vars

\* C14 (amended): every get or delete request, and every update request that
\* carries a non-empty title, of an authenticated session for an id whose
\* deletion was answered 204 before the request arrived is answered 404, and
\* no list response carries a note of such an id.
C14_DeletedThen404 ==
    [][ /\ (/\ lastResp'.kind \in ByIdKinds /\ lastResp'.uid # 0 /\ lastResp'.gone
            /\ ~(lastResp'.kind = "updateNote" /\ lastResp'.missing))
             => lastResp'.status = 404
        /\ (lastResp'.kind = "getNotes" /\ lastResp'.status = 200)
             => \A n \in lastResp'.body : n._id \notin deleted ]_vars

W_C14 ==
    /\ lastResp.kind = "updateNote"
    /\ lastResp.gone
    /\ ~lastResp.missing
    /\ lastResp.status = 404

\* C15 (as stated): of the get-one, update and delete requests of an
\* authenticated session, one with a malformed id is answered 400 "invalid
\* noteId", one with a well-formed id that names no stored note when the
\* handler answers or looks it up is answered 404, both leave the Note
\* collection as it was, and one answered with a success status has a
\* well-formed id of a note that was stored when it was looked up.
C15_IdErrors ==
    [][ (lastResp'.kind \in ByIdKinds /\ lastResp'.uid # 0)
           => /\ lastResp'.noteId \in MalformedIds
                   => /\ lastResp'.status = 400
                      /\ lastResp'.body.error = "invalid noteId"
                      /\ notes' = notes
              /\ (/\ lastResp'.noteId \notin MalformedIds
                  /\ lastResp'.at \in {"start", "findById"}
                  /\ \A n \in notes : n._id # lastResp'.noteId)
                   => /\ lastResp'.status = 404
                      /\ notes' = notes
              /\ lastResp'.status \in 200..299
                   => /\ lastResp'.noteId \notin MalformedIds
                      /\ \/ \E n \in notes : n._id = lastResp'.noteId
                         \/ \E s \in Slots :
                               /\ inflight[s].kind = lastResp'.kind
                               /\ inflight'[s] = Idle
                               /\ inflight[s].doc._id = lastResp'.noteId ]_vars

\* C15 (amended): as stated, but of the update requests with a well-formed
\* id that names no stored note only those that carry a non-empty title are
\* answered 404 (the others are answered 400 before the note is looked up).
C15_IdErrorsTitleFirst ==
    [][ (lastResp'.kind \in ByIdKinds /\ lastResp'.uid # 0)
           => /\ lastResp'.noteId \in MalformedIds
                   => /\ lastResp'.status = 400
                      /\ lastResp'.body.error = "invalid noteId"
                      /\ notes' = notes
              /\ (/\ lastResp'.noteId \notin MalformedIds
                  /\ lastResp'.at \in {"start", "findById"}
                  /\ ~(lastResp'.kind = "updateNote" /\ lastResp'.missing)
                  /\ \A n \in notes : n._id # lastResp'.noteId)
                   => /\ lastResp'.status = 404
                      /\ notes' = notes
              /\ (lastResp'.kind = "updateNote" /\ lastResp'.missing)
                   => /\ lastResp'.status = 400
                      /\ notes' = notes
              /\ lastResp'.status \in 200..299
                   => /\ lastResp'.noteId \notin MalformedIds
                      /\ \/ \E n \in notes : n._id = lastResp'.noteId
                         \/ \E s \in Slots :
                               /\ inflight[s].kind = lastResp'.kind
                               /\ inflight'[s] = Idle
                               /\ inflight[s].doc._id = lastResp'.noteId ]_vars

W_C15 ==
    /\ lastResp.kind = "deleteNote"
    /\ lastResp.noteId \in MalformedIds
    /\ lastResp.status = 400
    /\ lastResp.body.error = "invalid noteId"
    /\ notes # {}

\* C16: every error forwarded to the error middleware is answered with a JSON
\* body of the one field `error`; an HTTP-shaped error is answered with its
\* own status and its own message, any other error (of the database, of the
\* session store) with status 500 and the fixed generic message, which is
\* not the message of the error.
C16_ErrorMapping ==
    /\ lastResp.thrown # NoError => lastResp.type = "error"
    /\ lastResp.type = "error"
         => /\ lastResp.thrown # NoError
            /\ DOMAIN lastResp.body = {"error"}
            /\ lastResp.thrown.isHttp
                 => /\ lastResp.status = lastResp.thrown.status
                    /\ lastResp.body.error = lastResp.thrown.message
            /\ ~lastResp.thrown.isHttp
                 => /\ lastResp.status = 500
                    /\ lastResp.body.error = "an unknown error occurred"
                    /\ lastResp.body.error # lastResp.thrown.message

W_C16 ==
    /\ lastResp.kind = "signUp"
    /\ lastResp.at = "create"
    /\ lastResp.type = "error"
    /\ ~lastResp.thrown.isHttp
    /\ lastResp.thrown.message = "E11000 duplicate key error"
    /\ lastResp.status = 500

\* C17: a logout whose session destruction failed is answered 500, and a
\* logout is answered 200 only when the destruction ended without an error
\* and the store entry of the session is gone; every logout is answered once,
\* with 200 or 500.
C17_LogoutFailure500 ==
    [][ \A s \in Slots :
          (inflight[s].kind = "logout" /\ inflight'[s] # inflight[s])
          => /\ inflight'[s] = Idle
             /\ lastResp'.kind = "logout"
             /\ lastResp'.status \in {200, 500}
             /\ lastResp'.thrown # NoError => lastResp'.status = 500
             /\ lastResp'.status = 200
                  => /\ lastResp'.thrown = NoError
                     /\ inflight[s].sid \notin DOMAIN store' ]_vars

W_C17 ==
    /\ lastResp.kind = "logout"
    /\ lastResp.status = 500
    /\ lastResp.sid # 0
    /\ lastResp.sid \in DOMAIN store

\* C18: the call of a client API function that receives a response whose
\* status is not 2xx throws an error that carries the message of the
\* response body; none returns normally.
C18_ClientThrowsOnFailure ==
    (lastCall.fn # "none" /\ lastResp.status \notin 200..299)
        => /\ lastCall.threw
           /\ lastCall.error.message = lastResp.body.error

\* C19: after a login answered 401 the login modal has the message of the
\* server as its errorText and raised no alert; after a signup answered 409
\* the signup modal has the message of the server as its errorText and
\* raised no alert.
C19_InlineErrorText ==
    ((lastResp.kind = "login" /\ lastResp.status = 401)
       \/ (lastResp.kind = "signUp" /\ lastResp.status = 409))
        => /\ lastCall.ui.errorText = lastResp.body.error
           /\ ~lastCall.ui.alert

\* C20 (as stated): a request to a guarded endpoint that carries the cookie
\* of a session is served with the session when the session was created, or
\* a request that carried it arrived, less than maxAge before, and is
\* answered 401 when not.
C20_RollingByRequests ==
    [][ (lastResp'.kind \in GuardedKinds /\ lastResp'.ck # 0 /\ ~lastResp'.lo)
           => /\ lastResp'.recent => lastResp'.status # 401
              /\ ~lastResp'.recent => lastResp'.status = 401 ]_vars

\* C20 (amended): the lifetime of a session starts anew when the session is
\* saved and when the response to a request that carried it is sent while it
\* is still stored; a request to a guarded endpoint that carries its cookie
\* is served with the session when that happened less than maxAge before
\* the request arrived, and is answered 401 when not.
C20_RollingByResponses ==
    [][ (lastResp'.kind \in GuardedKinds /\ lastResp'.ck # 0 /\ ~lastResp'.lo)
           => /\ lastResp'.alive => lastResp'.status # 401 /\ lastResp'.uid # 0
              /\ ~lastResp'.alive => lastResp'.status = 401 ]_vars

W_C20 ==
    /\ lastResp.kind = "getNotes"
    /\ lastResp.status = 200
    /\ lastResp.ck # 0
    /\ lastResp.alive
    /\ life[lastResp.ck].seen >= maxAge

\* C21: the notes are one pool shared by all users.  A list answered 200
\* carries every stored note, whoever created it; a get, (titled) update or
\* delete of an authenticated session for a stored note is served whoever
\* created the note: the get answers 200 with the note, the update reaches
\* its save and the delete its removal; and a delete answered 204 leaves no
\* note of that id, whoever created it.  The outcome is determined by the
\* stored notes and the request, never by the user of the session.
C21_SharedPool ==
    [][ /\ (lastResp'.kind = "getNotes" /\ lastResp'.status = 200)
             => lastResp'.body = notes
        /\ \A s \in Slots :
             (/\ inflight[s].kind \in ByIdKinds
              /\ inflight[s].pc = "findById"
              /\ inflight'[s] # inflight[s]
              /\ \E n \in notes : n._id = inflight[s].noteId)
             => \E n \in notes :
                  /\ n._id = inflight[s].noteId
                  /\ inflight[s].kind = "getNote"
                       => lastResp'.status = 200 /\ lastResp'.body = n
                  /\ inflight[s].kind = "updateNote"
                       => inflight'[s].pc = "save" /\ inflight'[s].doc = n
                  /\ inflight[s].kind = "deleteNote"
                       => inflight'[s].pc = "remove" /\ inflight'[s].doc = n
        /\ (lastResp'.kind = "deleteNote" /\ lastResp'.status = 204)
             => \A n \in notes' : n._id # lastResp'.noteId
        /\ (lastResp'.kind = "updateNote" /\ lastResp'.status = 200)
             => \E n \in notes' : /\ n._id = lastResp'.noteId
                                   /\ n.title \in NewTitles ]_vars

W_C21 ==
    /\ lastResp.kind = "deleteNote"
    /\ lastResp.status = 204
    /\ lastResp.noteId \in DOMAIN creator
    /\ creator[lastResp.noteId] # lastResp.uid
    /\ lastResp.uid # 0

\* C22: last write wins.  Every save step of an update of a stored note is
\* answered 200 and leaves the note stored with the title and the text of
\* that request; so after concurrent updates of one note the stored title
\* and text are those of the request whose save ran last, never the title of
\* one request with the text of the other.
C22_LastWriteWins ==
    [][ \A s \in Slots :
          (/\ inflight[s].kind = "updateNote"
           /\ inflight[s].pc = "save"
           /\ inflight'[s] = Idle
           /\ \E n \in notes : n._id = inflight[s].noteId)
          => /\ lastResp'.status = 200
             /\ \E n \in notes' : /\ n._id = inflight[s].noteId
                                   /\ n.title = inflight[s].title
                                   /\ n.text = inflight[s].text ]_vars

\* C23: while the database works, every update request of an authenticated
\* session is answered 200, 400 or 404 and every delete request 204, 400 or
\* 404, however the finds, saves and removals of concurrent requests on one
\* note interleave.
C23_UpdateDeleteStatus ==
    /\ (lastResp.kind = "updateNote" /\ lastResp.uid # 0)
         => lastResp.status \in {200, 400, 404}
    /\ (lastResp.kind = "deleteNote" /\ lastResp.uid # 0)
         => lastResp.status \in {204, 400, 404}

\* C24: an update answered 200 leaves the note of its id stored with the
\* title and text of the request, with the _id and createdAt it had and with
\* updatedAt either as it was or the time of the save, and leaves every other
\* stored note as it was; an update answered 400 or 404 leaves the Note
\* collection as it was.
C24_UpdateFrame ==
    [][ \A s \in Slots :
          (inflight[s].kind = "updateNote" /\ inflight'[s] = Idle)
          => /\ lastResp'.status = 200
                  => /\ \A n \in notes :
                          n._id # inflight[s].noteId => n \in notes'
                     /\ \A m \in notes' :
                          m._id # inflight[s].noteId => m \in notes
                     /\ \E n \in notes, m \in notes' :
                          /\ n._id = inflight[s].noteId
                          /\ m._id = inflight[s].noteId
                          /\ m.createdAt = n.createdAt
                          /\ m.updatedAt \in {n.updatedAt, now}
                          /\ m.title = inflight[s].title
                          /\ m.text = inflight[s].text
             /\ lastResp'.status \in {400, 404} => notes' = notes ]_vars

\* C25: every request is answered exactly once, given that every database
\* and session-store call completes.  A step of a handler either answers
\* its request (with a success response and no error, or with the error
\* response of the one error it forwarded) or awaits without answering; the
\* responses sent and the requests being handled add up to the requests
\* received; and a request being handled is answered in the end.
C25_AnsweredOnce ==
    /\ [](nresp + Cardinality({s \in Slots : inflight[s] # Idle}) = nreq)
    /\ [][ /\ nresp' \in {nresp, nresp + 1}
           /\ nresp' = nresp + 1
                => /\ lastResp'.kind # "none"
                   /\ lastResp'.type = "error" <=> lastResp'.thrown # NoError
           /\ \A s \in Slots :
                (inflight[s] # Idle /\ inflight'[s] # inflight[s])
                => \/ /\ inflight'[s] = Idle
                      /\ nresp' = nresp + 1
                      /\ lastResp'.kind = inflight[s].kind
                   \/ /\ inflight'[s].kind = inflight[s].kind
                      /\ inflight'[s].pc # inflight[s].pc
                      /\ nresp' = nresp
                      /\ lastResp' = NoResp ]_vars
    /\ \A s \in Slots : (inflight[s] # Idle) ~> (inflight[s] = Idle)

W_C25 ==
    /\ lastResp.kind = "logout"
    /\ lastResp.status = 500
    /\ nresp = nreq
    /\ nreq >= 2

\* C28: the checks of an update have a fixed precedence.  An update of an
\* authenticated session with a malformed noteId is answered 400 "invalid
\* noteId" whatever its title; one with a well-formed noteId and an absent
\* or empty title is answered 400 "Note must have a title" whether or not a
\* note of that id is stored, before the store is read; and only an update
\* with a well-formed noteId and a title is answered 404, when its find
\* returns no note.
C28_UpdatePrecedence ==
    [][ (lastResp'.kind = "updateNote" /\ lastResp'.uid # 0)
           => /\ lastResp'.noteId \in MalformedIds
                   => /\ lastResp'.status = 400
                      /\ lastResp'.body.error = "invalid noteId"
                      /\ lastResp'.at = "start"
              /\ (lastResp'.noteId \notin MalformedIds /\ lastResp'.missing)
                   => /\ lastResp'.status = 400
                      /\ lastResp'.body.error = "Note must have a title"
                      /\ lastResp'.at = "start"
                      /\ notes' = notes
              /\ (/\ lastResp'.noteId \notin MalformedIds
                  /\ ~lastResp'.missing
                  /\ lastResp'.at = "findById")
                   => /\ lastResp'.status = 404
                      /\ \A n \in notes : n._id # lastResp'.noteId
              /\ lastResp'.status = 404
                   => /\ lastResp'.noteId \notin MalformedIds
                      /\ ~lastResp'.missing
                      /\ lastResp'.at = "findById" ]_vars

W_C28 ==
    /\ lastResp.kind = "updateNote"
    /\ lastResp.uid # 0
    /\ lastResp.missing
    /\ lastResp.status = 400
    /\ lastResp.body.error = "Note must have a title"
    /\ \E n \in notes : n._id = lastResp.noteId

\* C29: after an update answered 200 the stored text of the note is the text
\* field of the request: the text when the body carries one, absent when
\* the body omits it (the previous text is not kept).
C29_TextReplaced ==
    [][ \A s \in Slots :
          (/\ inflight[s].kind = "updateNote"
           /\ inflight'[s] = Idle
           /\ lastResp'.status = 200)
          => \E n \in notes' : /\ n._id = inflight[s].noteId
                                /\ n.text = inflight[s].text ]_vars

\* C30: a signup or login answered 400, 401 or 409 leaves every stored
\* session bound to the user it was bound to and stores no new session: the
\* session of the request, bound to a user or unbound, stays as it was,
\* whichever user the request named.
C30_FailedAuthKeepsSession ==
    [][ (/\ lastResp'.kind \in {"signUp", "login"}
         /\ lastResp'.status \in {400, 401, 409})
           => /\ store' = store
              /\ nextSid' = nextSid
              /\ lastResp'.sid = 0 => lastResp'.uid = 0 ]_vars

W_C30 ==
    /\ lastResp.kind = "login"
    /\ lastResp.status = 401
    /\ lastResp.at = "compare"
    /\ lastResp.uid # 0
    /\ lastResp.sid \in DOMAIN store
    /\ store[lastResp.sid] = lastResp.uid
    /\ \E u \in users : u._id = lastResp.uid /\ u.username # "a"

\* C26: the note dialog debounces its submission.  No two requests being
\* handled were sent by the form of one dialog; while a request of the
\* dialog that is mounted is being handled its form is submitting, so its
\* Save button is disabled; and no two stored notes were created from one
\* dialog.
C26_SaveDebounced ==
    /\ \A s \in Slots, t \in Slots :
         (/\ s # t /\ inflight[s] # Idle /\ inflight[t] # Idle
          /\ inflight[s].inst # 0)
         => inflight[s].inst # inflight[t].inst
    /\ \A s \in Slots :
         (inflight[s] # Idle /\ inflight[s].inst # 0
          /\ inflight[s].inst = form.inst)
         => form.isSubmitting
    /\ \A n \in DOMAIN savedBy, m \in DOMAIN savedBy :
         n # m => savedBy[n] # savedBy[m]

W_C26 ==
    /\ app.showAddNoteDialog
    /\ form.isSubmitting
    /\ \E s \in Slots : /\ inflight[s] # Idle
                         /\ inflight[s].kind = "createNote"
                         /\ inflight[s].inst = form.inst
    /\ \E n \in DOMAIN savedBy : savedBy[n] # form.inst

\* C27: when every delete, create and edit the page sent is answered, the
\* notes it shows are the notes it loaded with those operations applied in
\* the order of their answers: a note whose delete succeeded is not shown
\* (whatever was sent while it was under way), and a note whose delete was
\* answered with a failure status is still shown.
C27_ShownMatchesOperations ==
    (app.mounted /\ \A s \in Slots : inflight[s] = Idle)
        => app.notes = expect

====
